---- MODULE Spec2Model ----
(***************************************************************************)
(* Model of the module subsystem of rhai (src/src/module.rs): the Module   *)
(* namespace container, the native-function adapter layer, the qualified   *)
(* accessors, StaticModuleResolver and FileModuleResolver.                 *)
(***************************************************************************)
EXTENDS Naturals, Sequences, FiniteSets, TLC

VARIABLES
    m,          \* the Module the operations are invoked on
    gvars,      \* history: name -> value of the latest set_var call
    gsubs,      \* history: name -> module of the latest set_sub_module call
    gfns,       \* history: hash -> callable of the latest set_fn call
    regs,       \* history: the registrations made so far, in order
    call,       \* the last invocation of a native function
    q,          \* the last qualified access and its result
    registry,   \* StaticModuleResolver.0
    sres,       \* the last StaticModuleResolver::resolve call and its result
    fmr,        \* the FileModuleResolver
    pc,         \* position inside FileModuleResolver::resolve
    frame,      \* locals of FileModuleResolver::resolve
    calls,      \* history: collaborator calls made by the running resolve
    result      \* what the last FileModuleResolver::resolve returned

vars == <<m, gvars, gsubs, gfns, regs, call, q, registry, sres, fmr, pc, frame, calls, result>>

modVars == <<m, gvars, gsubs, gfns>>
fnVars == <<regs, call>>
staticVars == <<registry, sres>>
fileVars == <<fmr, pc, frame, calls, result>>

-----------------------------------------------------------------------------
(* Maps (HashMap) and options *)

EmptyMap == <<>>

Put(map, k, v) == [x \in (DOMAIN map) \cup {k} |-> IF x = k THEN v ELSE map[x]]

Del(map, k) == [x \in (DOMAIN map) \ {k} |-> map[x]]

None == <<>>

Some(x) == <<x>>

Lookup(map, k) == IF k \in DOMAIN map THEN Some(map[k]) ELSE None

-----------------------------------------------------------------------------
(* Bounds and input alphabets *)

MaxRegs == 2

MaxPath == 3

MaxScope == 3

HashModulus == 7

Names == {"a", "b"}

Values == {1, 2}

Types == {"i64", "u8"}

FnNames == {"f", "g"}

\* the name the typed closures are registered under
AdapterNames == {"f"}

Closures == {"sum", "fail"}

\* the type of the third parameter of the three-parameter registrations
ThirdTypes == {"i64"}

\* Position::none()
NoPos == 0

\* positions of a call or of an import statement
Positions == {1, 2}

\* position of the i-th segment of a qualified path
SegPos(i) == 10 + i

\* position an error carries when a closure or a collaborator creates it
InnerPos == 5

-----------------------------------------------------------------------------
(* Dynamic values *)

Dyn(t, v) == [t |-> t, v |-> v, boxed |-> <<>>]

DynModule(md) == [t |-> "Module", v |-> 0, boxed |-> <<md>>]

\* Dynamic::default(), what mem::take leaves behind
UNIT == Dyn("()", 0)

Dynamics == {Dyn(t, v) : t \in Types, v \in Values}

-----------------------------------------------------------------------------
(* Module *)

Module_new ==
    [modules |-> EmptyMap, variables |-> EmptyMap, functions |-> EmptyMap, fn_lib |-> EmptyMap]

contains_var(md, name) == name \in DOMAIN md.variables

get_var(md, name) == Lookup(md.variables, name)

get_var_mut(md, name) == Lookup(md.variables, name)

\* set_var with an insert that keeps an existing entry
set_var_keep(md, name, value) ==
    IF name \in DOMAIN md.variables THEN md ELSE [md EXCEPT !.variables = Put(@, name, value)]

set_var(md, name, value) == [md EXCEPT !.variables = Put(@, name, value)]

contains_sub_module(md, name) == name \in DOMAIN md.modules

get_sub_module(md, name) == Lookup(md.modules, name)

get_sub_module_mut(md, name) == Lookup(md.modules, name)

set_sub_module(md, name, sub_module) == [md EXCEPT !.modules = Put(@, name, sub_module)]

contains_fn(md, hash) == hash \in DOMAIN md.functions

get_fn(md, hash) == Lookup(md.functions, hash)

get_fn_lib(md) == md.fn_lib

-----------------------------------------------------------------------------
(* Results and errors *)

Ok(x) == [kind |-> "Ok", val |-> x]

Err(e) == [kind |-> "Err", err |-> e]

Panic == [kind |-> "Panic"]

ErrorVariableNotFound(name, pos) == [kind |-> "ErrorVariableNotFound", what |-> name, pos |-> pos]

ErrorModuleNotFound(name, pos) == [kind |-> "ErrorModuleNotFound", what |-> name, pos |-> pos]

ErrorFunctionNotFound(name, pos) == [kind |-> "ErrorFunctionNotFound", what |-> name, pos |-> pos]

\* an error made by a closure, by the compiler or by the evaluator
ErrorInner(what) == [kind |-> "ErrorRuntime", what |-> what, pos |-> InnerPos]

\* EvalAltResult::set_position
set_position(err, pos) == [err EXCEPT !.pos = pos]

-----------------------------------------------------------------------------
(* Native functions: hashing, closures, adapters *)

NameCode(name) ==
    CASE name = "f" -> 1
      [] name = "g" -> 2
      [] OTHER -> 3

TypeCode(t) ==
    CASE t = "i64" -> 1
      [] OTHER -> 2

RECURSIVE HashParams(_, _)
HashParams(h, params) ==
    IF params = <<>> THEN h
    ELSE HashParams((h * 3 + TypeCode(Head(params))) % HashModulus, Tail(params))

\* crate::calc_fn_hash: a hash of the name followed by the parameter types
calc_fn_hash(fn_name, params) == HashParams(NameCode(fn_name) % HashModulus, params)

RECURSIVE Sum(_)
Sum(vals) == IF vals = <<>> THEN 0 ELSE Head(vals) + Sum(Tail(vals))

\* the closures handed to set_fn_N: func(a, b, ...)
apply_closure(func, vals) ==
    IF func = "sum" THEN Ok(Sum(vals)) ELSE Err(ErrorInner("closure"))

\* the closures handed to set_fn_N_mut: func(&mut a, b, ...)
apply_closure_mut(func, a, vals) ==
    IF func = "sum"
    THEN [a |-> a + Sum(vals) + 1, ret |-> Ok(a + Sum(vals) + 1)]
    ELSE [a |-> a + 1, ret |-> Err(ErrorInner("closure"))]

\* .map(|v| v.into()).map_err(|err| EvalAltResult::set_position(err, pos))
map_result(ret, pos) ==
    IF ret.kind = "Ok" THEN Ok(Dyn("i64", ret.val)) ELSE Err(set_position(ret.err, pos))

\* mem::take(args[i])
take(args, i) == [args EXCEPT ![i] = UNIT]

\* mem::take(args[i]).cast::<T>() for the slots of order, one after the other;
\* an index out of range or a failed cast panics
RECURSIVE take_cast(_, _, _)
take_cast(args, order, types) ==
    IF order = <<>> THEN [ok |-> TRUE, args |-> args, vals |-> <<>>]
    ELSE LET i == Head(order) IN
         IF i > Len(args) THEN [ok |-> FALSE, args |-> args, vals |-> <<>>]
         ELSE IF args[i].t # types[i] THEN [ok |-> FALSE, args |-> take(args, i), vals |-> <<>>]
         ELSE LET r == take_cast(take(args, i), Tail(order), types)
              IN  [ok |-> r.ok, args |-> r.args, vals |-> <<args[i].v>> \o r.vals]

\* the adapter a set_fn_N call builds around func
Adapter(arity, mut, types, func) == [arity |-> arity, mut |-> mut, types |-> types, func |-> func]

\* the adapter of set_fn_0
call_fn_0(f, args, pos) == [args |-> args, out |-> map_result(apply_closure(f.func, <<>>), pos)]

\* the adapters of set_fn_1, set_fn_2, set_fn_3: every argument is taken
call_fn_n(f, args, pos) ==
    LET r == take_cast(args, [i \in 1..f.arity |-> i], f.types)
    IN  IF r.ok
        THEN [args |-> r.args, out |-> map_result(apply_closure(f.func, r.vals), pos)]
        ELSE [args |-> r.args, out |-> Panic]

\* a _mut adapter that moves its first argument out as well
call_fn_n_mut_take(f, args, pos) ==
    LET r == take_cast(args, [i \in 1..(f.arity - 1) |-> i + 1], f.types)
    IN  IF ~r.ok \/ Len(args) < 1 \/ r.args[1].t # f.types[1]
        THEN [args |-> r.args, out |-> Panic]
        ELSE LET c == apply_closure_mut(f.func, r.args[1].v, r.vals)
             IN  [args |-> take(r.args, 1), out |-> map_result(c.ret, pos)]

\* the adapters of set_fn_1_mut, set_fn_2_mut, set_fn_3_mut: the arguments
\* after the first are taken, then the first is borrowed by downcast_mut
call_fn_n_mut(f, args, pos) ==
    LET r == take_cast(args, [i \in 1..(f.arity - 1) |-> i + 1], f.types)
    IN  IF ~r.ok \/ Len(args) < 1 \/ r.args[1].t # f.types[1]
        THEN [args |-> r.args, out |-> Panic]
        ELSE LET c == apply_closure_mut(f.func, r.args[1].v, r.vals)
             IN  [args |-> [r.args EXCEPT ![1] = Dyn(f.types[1], c.a)],
                  out |-> map_result(c.ret, pos)]

\* calling a Box<FnAny>: f(args, pos)
Invoke(f, args, pos) ==
    IF f.arity = 0 THEN call_fn_0(f, args, pos)
    ELSE IF f.mut THEN call_fn_n_mut(f, args, pos)
    ELSE call_fn_n(f, args, pos)

\* set_fn with an insert that keeps an existing entry
set_fn_keep(md, fn_name, params, func) ==
    LET hash == calc_fn_hash(fn_name, params)
    IN  [module |-> IF hash \in DOMAIN md.functions THEN md
                    ELSE [md EXCEPT !.functions = Put(@, hash, func)],
         hash |-> hash]

set_fn(md, fn_name, params, func) ==
    LET hash == calc_fn_hash(fn_name, params)
    IN  [module |-> [md EXCEPT !.functions = Put(@, hash, func)], hash |-> hash]

set_fn_0(md, fn_name, func) == set_fn(md, fn_name, <<>>, Adapter(0, FALSE, <<>>, func))

set_fn_1(md, fn_name, A, func) == set_fn(md, fn_name, <<A>>, Adapter(1, FALSE, <<A>>, func))

set_fn_1_mut(md, fn_name, A, func) == set_fn(md, fn_name, <<A>>, Adapter(1, TRUE, <<A>>, func))

set_fn_2(md, fn_name, A, B, func) ==
    set_fn(md, fn_name, <<A, B>>, Adapter(2, FALSE, <<A, B>>, func))

set_fn_2_mut(md, fn_name, A, B, func) ==
    set_fn(md, fn_name, <<A, B>>, Adapter(2, TRUE, <<A, B>>, func))

set_fn_3(md, fn_name, A, B, C, func) ==
    set_fn(md, fn_name, <<A, B, C>>, Adapter(3, FALSE, <<A, B, C>>, func))

set_fn_3_mut(md, fn_name, A, B, C, func) ==
    set_fn(md, fn_name, <<A, B, C>>, Adapter(3, TRUE, <<A, B, C>>, func))

-----------------------------------------------------------------------------
(* Script-function library (FunctionsLib): (name, arity) -> definition *)

FnDef(name, params, body) == [name |-> name, params |-> params, body |-> body]

\* FunctionsLib::get_function
get_function(lib, name, args) == Lookup(lib, <<name, args>>)

\* FunctionsLib::merge: the union, the merged-in library winning a collision
merge(lib, other) ==
    [k \in (DOMAIN lib) \cup (DOMAIN other) |-> IF k \in DOMAIN other THEN other[k] ELSE lib[k]]

-----------------------------------------------------------------------------
(* Qualified accessors *)

\* Token::DoubleColon.syntax()
DoubleColon == "::"

\* the loop of get_qualified_module_mut; loc is where the reference points
RECURSIVE descend(_, _, _)
descend(module, drain, loc) ==
    IF drain = <<>> THEN Ok([loc |-> loc, module |-> module])
    ELSE LET id == Head(drain).name
             id_pos == Head(drain).pos
             sub == get_sub_module_mut(module, id)
         IN  IF sub = None THEN Err(ErrorModuleNotFound(id, id_pos))
             ELSE descend(sub[1], Tail(drain), Append(loc, id))

\* get_qualified_module_mut that descends through the first segment too
get_qualified_module_mut_no_skip(md, modules) ==
    IF modules = <<>> THEN Panic
    ELSE descend(md, modules, <<>>)

\* get_qualified_module_mut that skips the first segment only if there is one
get_qualified_module_mut_no_unwrap(md, modules) ==
    IF modules = <<>> THEN descend(md, <<>>, <<>>)
    ELSE descend(md, Tail(modules), <<>>)

get_qualified_module_mut(md, modules) ==
    IF modules = <<>> THEN Panic
    ELSE descend(md, Tail(modules), <<>>)

get_qualified_var_mut(md, name, modules, pos) ==
    LET r == get_qualified_module_mut(md, modules)
    IN  IF r.kind # "Ok" THEN r
        ELSE LET v == get_var_mut(r.val.module, name)
             IN  IF v = None THEN Err(ErrorVariableNotFound(name, pos))
                 ELSE Ok([loc |-> r.val.loc, name |-> name, value |-> v[1]])

\* the display name get_qualified_fn builds
RECURSIVE qualified_name(_, _)
qualified_name(modules, name) ==
    IF modules = <<>> THEN name
    ELSE Head(modules).name \o DoubleColon \o qualified_name(Tail(modules), name)

\* get_qualified_fn that names the segments it descended through only
get_qualified_fn_skip_first(md, name, hash, modules, pos) ==
    LET r == get_qualified_module_mut(md, modules)
    IN  IF r.kind # "Ok" THEN r
        ELSE LET f == get_fn(r.val.module, hash)
             IN  IF f = None
                 THEN Err(ErrorFunctionNotFound(qualified_name(Tail(modules), name), pos))
                 ELSE Ok(f[1])

get_qualified_fn(md, name, hash, modules, pos) ==
    LET r == get_qualified_module_mut(md, modules)
    IN  IF r.kind # "Ok" THEN r
        ELSE LET f == get_fn(r.val.module, hash)
             IN  IF f = None THEN Err(ErrorFunctionNotFound(qualified_name(modules, name), pos))
                 ELSE Ok(f[1])

get_qualified_fn_lib(md, name, args, modules) ==
    LET r == get_qualified_module_mut(md, modules)
    IN  IF r.kind # "Ok" THEN r
        ELSE Ok(get_function(r.val.module.fn_lib, name, args))

-----------------------------------------------------------------------------
(* PathBuf: the components of a path, each a sequence of characters *)

PathBuf(abs, comps) == [abs |-> abs, comps |-> comps]

\* PathBuf::new(), String::new()
PathBuf_new == PathBuf(FALSE, <<>>)

String_new == <<>>

\* PathBuf::push: an absolute path replaces the base
push(base, path) ==
    IF path.abs THEN path ELSE PathBuf(base.abs, base.comps \o path.comps)

\* the index of the last "." of a file name, 0 when there is none
RECURSIVE last_dot(_, _)
last_dot(name, i) ==
    IF i = 0 THEN 0 ELSE IF name[i] = "." THEN i ELSE last_dot(name, i - 1)

\* Path::file_stem: the name up to its last ".", the whole name when it has
\* no "." but a leading one
file_stem(name) ==
    LET d == last_dot(name, Len(name))
    IN  IF d <= 1 THEN name ELSE SubSeq(name, 1, d - 1)

\* PathBuf::set_extension: nothing without a file name ("" or ".." last)
set_extension(path, extension) ==
    LET n == Len(path.comps) IN
    IF n = 0 \/ path.comps[n] = <<".", ".">> THEN path
    ELSE LET stem == file_stem(path.comps[n])
             name == IF extension = <<>> THEN stem ELSE stem \o <<".">> \o extension
         IN  PathBuf(path.abs, [path.comps EXCEPT ![n] = name])

-----------------------------------------------------------------------------
(* FileModuleResolver *)

rhai == <<"r", "h", "a", "i">>

FileModuleResolver_new_with_path_and_extension(path, extension) ==
    [path |-> path, extension |-> extension]

FileModuleResolver_new_with_path(path) ==
    FileModuleResolver_new_with_path_and_extension(path, rhai)

\* Default::default() of the derived Default
FileModuleResolver_new == [path |-> PathBuf_new, extension |-> String_new]

\* the script file path resolve constructs
script_file_path(self, path) == set_extension(push(self.path, path), self.extension)

ScopeEntry(name, typ, value) == [name |-> name, typ |-> typ, value |-> value]

\* Scope::new()
Scope_new == <<>>

\* a harvest in which the first entry of a name wins
harvest_entry_keep(module, e) ==
    IF e.typ \in {"Normal", "Constant"}
    THEN IF e.name \in DOMAIN module.variables THEN module
         ELSE [module EXCEPT !.variables = Put(@, e.name, e.value)]
    ELSE [module EXCEPT !.modules = Put(@, e.name, e.value.boxed[1])]

\* the closure resolve runs on each entry left in the scope
harvest_entry(module, e) ==
    IF e.typ \in {"Normal", "Constant"}
    THEN [module EXCEPT !.variables = Put(@, e.name, e.value)]
    ELSE [module EXCEPT !.modules = Put(@, e.name, e.value.boxed[1])]

\* scope.into_iter().for_each(...) on a new module
RECURSIVE harvest(_, _)
harvest(module, scope) ==
    IF scope = <<>> THEN module
    ELSE harvest(harvest_entry(module, Head(scope)), Tail(scope))

\* the module resolve returns for a final scope and a compiled unit
harvest_module(scope, ast) ==
    LET module == harvest(Module_new, scope)
    IN  [module EXCEPT !.fn_lib = merge(module.fn_lib, ast.fn_lib)]

\* a resolve that returns a compilation error as it got it
after_compile_no_stamp(fr, r) ==
    IF r.kind = "Ok"
    THEN [pc |-> "eval",
          frame |-> [fr EXCEPT !.path = None, !.file_path = None, !.ast = Some(r.val),
                               !.scope = Scope_new],
          result |-> [kind |-> "Running"]]
    ELSE [pc |-> "done",
          frame |-> [fr EXCEPT !.path = None, !.file_path = None],
          result |-> Err(r.err)]

\* what resolve does with compile_file's result; file_path was moved into
\* the call and path is not used again
after_compile(fr, r) ==
    IF r.kind = "Ok"
    THEN [pc |-> "eval",
          frame |-> [fr EXCEPT !.path = None, !.file_path = None, !.ast = Some(r.val),
                               !.scope = Scope_new],
          result |-> [kind |-> "Running"]]
    ELSE [pc |-> "done",
          frame |-> [fr EXCEPT !.path = None, !.file_path = None],
          result |-> Err(set_position(r.err, fr.pos))]

\* what resolve does with eval_ast_with_scope_raw's result; scope is the
\* scope as the evaluator left it
after_eval(fr, r, scope) ==
    IF r.kind = "Ok"
    THEN [pc |-> "harvest", frame |-> [fr EXCEPT !.scope = scope], result |-> [kind |-> "Running"]]
    ELSE [pc |-> "done", frame |-> [fr EXCEPT !.scope = scope],
          result |-> Err(set_position(r.err, fr.pos))]

-----------------------------------------------------------------------------
(* StaticModuleResolver *)

StaticModuleResolver_new == EmptyMap

\* a resolve whose error carries no position
StaticModuleResolver_resolve_no_pos(self, path, pos) ==
    IF path \in DOMAIN self THEN Ok(self[path]) ELSE Err(ErrorModuleNotFound(path, NoPos))

StaticModuleResolver_resolve(self, path, pos) ==
    IF path \in DOMAIN self THEN Ok(self[path]) ELSE Err(ErrorModuleNotFound(path, pos))

-----------------------------------------------------------------------------
(* Inputs *)

\* modules as a caller builds them before handing them over
LeafModules ==
    {Module_new}
    \cup {set_var(Module_new, n, d) : n \in Names, d \in Dynamics}
    \cup {set_fn_0(Module_new, fn, c).module : fn \in FnNames, c \in Closures}

\* a script-function library with one function, double(x)
DoubleLib == [k \in {<<"double", 1>>} |-> FnDef("double", <<"x">>, "x * 2")]

ASTs == {[fn_lib |-> EmptyMap], [fn_lib |-> DoubleLib]}

NoOp == [op |-> "none"]

InitModule == m = Module_new /\ gvars = EmptyMap /\ gsubs = EmptyMap /\ gfns = EmptyMap

InitFn == regs = <<>> /\ call = NoOp

InitStatic == registry = StaticModuleResolver_new /\ sres = NoOp

InitFile ==
    /\ fmr = [self |-> FileModuleResolver_new, ctor |-> "new"]
    /\ pc = "idle"
    /\ frame = [path |-> None, pos |-> NoPos, file_path |-> None, ast |-> None, scope |-> Scope_new]
    /\ calls = <<>>
    /\ result = [kind |-> "None"]

-----------------------------------------------------------------------------
(* Module: variables, sub-modules, functions *)

SetVar(name, value) ==
    /\ m' = set_var(m, name, value)
    /\ gvars' = Put(gvars, name, value)
    /\ UNCHANGED <<gsubs, gfns, fnVars, q, staticVars, fileVars>>

SetSubModule(name, sub_module) ==
    /\ m' = set_sub_module(m, name, sub_module)
    /\ gsubs' = Put(gsubs, name, sub_module)
    /\ UNCHANGED <<gvars, gfns, fnVars, q, staticVars, fileVars>>

SetFn0(fn_name, func) ==
    LET r == set_fn_0(m, fn_name, func) IN
    /\ m' = r.module
    /\ gfns' = r.module.functions
    /\ UNCHANGED <<gvars, gsubs, fnVars, q, staticVars, fileVars>>

NextModule ==
    \/ \E name \in Names, value \in Dynamics : SetVar(name, value)
    \/ \E name \in Names, sub_module \in LeafModules : SetSubModule(name, sub_module)
    \/ \E fn_name \in FnNames, func \in Closures : SetFn0(fn_name, func)

Init == InitModule /\ InitFn /\ q = NoOp /\ InitStatic /\ InitFile

SpecModule == Init /\ [][NextModule]_vars

-----------------------------------------------------------------------------
(* Native functions: registration *)

\* callables written by hand, handed to set_fn as they are
RawFuncs == {Adapter(0, FALSE, <<>>, c) : c \in Closures}

RawParams == {<<>>, <<"i64">>}

\* a registration call returned r
Register(via, fn_name, params, func, r) ==
    /\ Len(regs) < MaxRegs
    /\ m' = r.module
    /\ regs' = Append(regs, [via |-> via, fn_name |-> fn_name, params |-> params,
                             func |-> func, hash |-> r.hash])
    /\ UNCHANGED <<gvars, gsubs, gfns, call, q, staticVars, fileVars>>

RegSetFn(fn_name, params, func) ==
    Register("set_fn", fn_name, params, func.func, set_fn(m, fn_name, params, func))

RegSetFn0(fn_name, func) ==
    Register("set_fn_0", fn_name, <<>>, func, set_fn_0(m, fn_name, func))

RegSetFn1(fn_name, A, func) ==
    Register("set_fn_1", fn_name, <<A>>, func, set_fn_1(m, fn_name, A, func))

RegSetFn1Mut(fn_name, A, func) ==
    Register("set_fn_1_mut", fn_name, <<A>>, func, set_fn_1_mut(m, fn_name, A, func))

RegSetFn2(fn_name, A, B, func) ==
    Register("set_fn_2", fn_name, <<A, B>>, func, set_fn_2(m, fn_name, A, B, func))

RegSetFn2Mut(fn_name, A, B, func) ==
    Register("set_fn_2_mut", fn_name, <<A, B>>, func, set_fn_2_mut(m, fn_name, A, B, func))

RegSetFn3(fn_name, A, B, C, func) ==
    Register("set_fn_3", fn_name, <<A, B, C>>, func, set_fn_3(m, fn_name, A, B, C, func))

RegSetFn3Mut(fn_name, A, B, C, func) ==
    Register("set_fn_3_mut", fn_name, <<A, B, C>>, func, set_fn_3_mut(m, fn_name, A, B, C, func))

\* the call a registration makes
registration(md, via, fn_name, T, func) ==
    CASE via = "set_fn_0" -> set_fn_0(md, fn_name, func)
      [] via = "set_fn_1" -> set_fn_1(md, fn_name, T[1], func)
      [] via = "set_fn_1_mut" -> set_fn_1_mut(md, fn_name, T[1], func)
      [] via = "set_fn_2" -> set_fn_2(md, fn_name, T[1], T[2], func)
      [] via = "set_fn_2_mut" -> set_fn_2_mut(md, fn_name, T[1], T[2], func)
      [] via = "set_fn_3" -> set_fn_3(md, fn_name, T[1], T[2], T[3], func)
      [] OTHER -> set_fn_3_mut(md, fn_name, T[1], T[2], T[3], func)

ArityOf(via) ==
    CASE via = "set_fn_0" -> 0
      [] via \in {"set_fn_1", "set_fn_1_mut"} -> 1
      [] via \in {"set_fn_2", "set_fn_2_mut"} -> 2
      [] OTHER -> 3

Vias == {"set_fn_0", "set_fn_1", "set_fn_1_mut", "set_fn_2", "set_fn_2_mut", "set_fn_3",
         "set_fn_3_mut"}

\* argument arrays of the types a callable declares
ArgsFor(f) == {args \in [1..f.arity -> Dynamics] : \A i \in 1..f.arity : args[i].t = f.types[i]}

\* the dispatcher calls the function registered under hash
InvokeFn(hash, args, pos) ==
    /\ contains_fn(m, hash)
    /\ LET f == get_fn(m, hash)[1]
           r == Invoke(f, args, pos)
       IN  /\ args \in ArgsFor(f)
           /\ call' = [op |-> "call", hash |-> hash, f |-> f, before |-> args, pos |-> pos,
                       after |-> r.args, out |-> r.out]
    /\ UNCHANGED <<modVars, regs, q, staticVars, fileVars>>

NextFn ==
    \/ \E fn_name \in FnNames, params \in RawParams, func \in RawFuncs :
          RegSetFn(fn_name, params, func)
    \/ \E fn_name \in AdapterNames, func \in Closures : RegSetFn0(fn_name, func)
    \/ \E fn_name \in AdapterNames, A \in Types, func \in Closures : RegSetFn1(fn_name, A, func)
    \/ \E fn_name \in AdapterNames, A \in Types, func \in Closures :
          RegSetFn1Mut(fn_name, A, func)
    \/ \E fn_name \in AdapterNames, A \in Types, B \in Types, func \in Closures :
          RegSetFn2(fn_name, A, B, func)
    \/ \E fn_name \in AdapterNames, A \in Types, B \in Types, func \in Closures :
          RegSetFn2Mut(fn_name, A, B, func)
    \/ \E fn_name \in AdapterNames, A \in Types, B \in Types, C \in ThirdTypes, func \in Closures :
          RegSetFn3(fn_name, A, B, C, func)
    \/ \E fn_name \in AdapterNames, A \in Types, B \in Types, C \in ThirdTypes, func \in Closures :
          RegSetFn3Mut(fn_name, A, B, C, func)

SpecFn == Init /\ [][NextFn]_vars

\* a module with one typed closure registered
InitAdapter ==
    /\ \E via \in Vias, fn_name \in AdapterNames, func \in Closures :
         \E T \in [1..ArityOf(via) -> Types] :
            LET r == registration(Module_new, via, fn_name, T, func) IN
            /\ m = r.module
            /\ regs = <<[via |-> via, fn_name |-> fn_name, params |-> T, func |-> func,
                         hash |-> r.hash]>>
    /\ gvars = EmptyMap /\ gsubs = EmptyMap /\ gfns = EmptyMap
    /\ call = NoOp
    /\ q = NoOp
    /\ InitStatic
    /\ InitFile

NextAdapter ==
    \E hash \in 0..(HashModulus - 1), pos \in Positions :
       \E args \in UNION {[1..n -> Dynamics] : n \in 0..3} : InvokeFn(hash, args, pos)

SpecAdapter == InitAdapter /\ [][NextAdapter]_vars

-----------------------------------------------------------------------------
(* Qualified access *)

\* a module as FileModuleResolver::resolve returns it, with a script function
LibModule == harvest_module(Scope_new, [fn_lib |-> DoubleLib])

TreeLeaves ==
    {Module_new, set_var(Module_new, "a", Dyn("i64", 1)),
     set_fn_0(Module_new, "f", "sum").module, LibModule}

\* the modules a caller builds with set_sub_module, sub-modules first
RECURSIVE Trees(_)
Trees(depth) ==
    IF depth = 0 THEN TreeLeaves
    ELSE TreeLeaves \cup
         {set_sub_module(top, n, sub) : top \in TreeLeaves, n \in Names, sub \in Trees(depth - 1)}

\* qualified paths: a first segment, then sub-module names
RECURSIVE NameSeqs(_)
NameSeqs(n) ==
    IF n = 0 THEN {<<>>}
    ELSE NameSeqs(n - 1) \cup {Append(p, x) : p \in {y \in NameSeqs(n - 1) : Len(y) = n - 1}, x \in Names}

FirstNames == {"self", "a"}

MkPath(names) == [i \in 1..Len(names) |-> [name |-> names[i], pos |-> SegPos(i)]]

Paths ==
    {<<>>} \cup {MkPath(<<s0>> \o rest) : s0 \in FirstNames, rest \in NameSeqs(MaxPath - 1)}

\* the hashes the evaluator asks for
QueryFns == {[name |-> fn, hash |-> calc_fn_hash(fn, <<>>)] : fn \in FnNames}

\* one access at a time: the caller takes the result before the next call
Query(op, name, n, modules, pos, out) ==
    /\ q = NoOp
    /\ q' = [op |-> op, name |-> name, n |-> n, path |-> modules, pos |-> pos, out |-> out]
    /\ UNCHANGED <<modVars, fnVars, staticVars, fileVars>>

GetQualifiedModuleMut(modules) ==
    Query("get_qualified_module_mut", "", 0, modules, NoPos, get_qualified_module_mut(m, modules))

GetQualifiedVarMut(name, modules, pos) ==
    Query("get_qualified_var_mut", name, 0, modules, pos,
          get_qualified_var_mut(m, name, modules, pos))

GetQualifiedFn(name, hash, modules, pos) ==
    Query("get_qualified_fn", name, hash, modules, pos,
          get_qualified_fn(m, name, hash, modules, pos))

GetQualifiedFnLib(name, args, modules) ==
    Query("get_qualified_fn_lib", name, args, modules, NoPos,
          get_qualified_fn_lib(m, name, args, modules))

InitQualified ==
    /\ m \in Trees(MaxPath - 1)
    /\ gvars = EmptyMap /\ gsubs = EmptyMap /\ gfns = EmptyMap
    /\ InitFn
    /\ q = NoOp
    /\ InitStatic
    /\ InitFile

\* the caller is done with the result of the last access
Return ==
    /\ q # NoOp
    /\ q' = NoOp
    /\ UNCHANGED <<modVars, fnVars, staticVars, fileVars>>

NextQualified ==
    \/ Return
    \/ q = NoOp /\ \E modules \in Paths : GetQualifiedModuleMut(modules)
    \/ q = NoOp /\ \E name \in Names, modules \in Paths, pos \in Positions :
                      GetQualifiedVarMut(name, modules, pos)
    \/ q = NoOp /\ \E f \in QueryFns, modules \in Paths, pos \in Positions :
                      GetQualifiedFn(f.name, f.hash, modules, pos)
    \/ q = NoOp /\ \E name \in {"double"}, args \in {0, 1}, modules \in Paths :
                      GetQualifiedFnLib(name, args, modules)

SpecQualified == InitQualified /\ [][NextQualified]_vars

-----------------------------------------------------------------------------
(* StaticModuleResolver *)

StaticPaths == {"mathlib", "util"}

\* through DerefMut: HashMap::insert
StaticInsert(path, module) ==
    /\ registry' = Put(registry, path, module)
    /\ sres' = NoOp
    /\ UNCHANGED <<modVars, fnVars, q, fileVars>>

\* through DerefMut: HashMap::remove
StaticRemove(path) ==
    /\ path \in DOMAIN registry
    /\ registry' = Del(registry, path)
    /\ sres' = NoOp
    /\ UNCHANGED <<modVars, fnVars, q, fileVars>>

\* resolve(&self, _, path, pos); owned is the module the caller now owns
StaticResolve(path, pos) ==
    LET out == StaticModuleResolver_resolve(registry, path, pos) IN
    /\ sres' = [op |-> "resolve", path |-> path, pos |-> pos, before |-> registry,
                out |-> out, owned |-> IF out.kind = "Ok" THEN Some(out.val) ELSE None,
                mutated |-> FALSE]
    /\ UNCHANGED <<registry, modVars, fnVars, q, fileVars>>

\* the caller changes the module resolve returned
MutateResolved(name, value) ==
    /\ sres # NoOp
    /\ sres.owned # None
    /\ sres' = [sres EXCEPT !.owned = Some(set_var(sres.owned[1], name, value)), !.mutated = TRUE]
    /\ UNCHANGED <<registry, modVars, fnVars, q, fileVars>>

NextStatic ==
    \/ \E path \in StaticPaths, module \in LeafModules : StaticInsert(path, module)
    \/ \E path \in StaticPaths : StaticRemove(path)
    \/ \E path \in StaticPaths \cup {"missing"}, pos \in Positions : StaticResolve(path, pos)
    \/ \E name \in Names, value \in Dynamics : MutateResolved(name, value)

SpecStatic == Init /\ [][NextStatic]_vars

-----------------------------------------------------------------------------
(* FileModuleResolver *)

Bases == {PathBuf(FALSE, <<<<"l">>>>)}

Extensions == {<<"x">>}

Resolvers ==
    {[self |-> FileModuleResolver_new, ctor |-> "new"]}
    \cup {[self |-> FileModuleResolver_new_with_path(b), ctor |-> "new_with_path"] : b \in Bases}
    \cup {[self |-> FileModuleResolver_new_with_path_and_extension(b, e),
           ctor |-> "new_with_path_and_extension"] : b \in Bases, e \in Extensions}

\* file names of import paths: "s", "s.t", ".s", "s.", "s.t.t"
FileNames ==
    {<<"s">>, <<"s", ".", "t">>, <<".", "s">>, <<"s", ".">>, <<"s", ".", "t", ".", "t">>}

\* relative import paths, with and without a directory
ImportPaths ==
    {PathBuf(FALSE, <<f>>) : f \in FileNames} \cup {PathBuf(FALSE, <<<<"u">>, f>>) : f \in FileNames}

CompileErrors == {ErrorInner("parse"), [kind |-> "ErrorReadingScriptFile", what |-> "io", pos |-> NoPos]}

EvalErrors == {ErrorInner("eval")}

ScopeEntries ==
    {ScopeEntry(n, typ, d) : n \in Names, typ \in {"Normal", "Constant"},
                             d \in {Dyn("i64", v) : v \in Values}}
    \cup {ScopeEntry(n, "Module", DynModule(md)) :
            n \in Names, md \in {Module_new, set_var(Module_new, "a", Dyn("i64", 1))}}

\* the scopes a script leaves behind
Scopes == UNION {[1..n -> ScopeEntries] : n \in 0..MaxScope}

\* resolve(&self, engine, path, pos) up to the call of compile_file
ResolveBegin(path, pos) ==
    /\ pc = "idle"
    /\ pc' = "compile"
    /\ frame' = [path |-> Some(path), pos |-> pos,
                 file_path |-> Some(script_file_path(fmr.self, path)),
                 ast |-> None, scope |-> Scope_new]
    /\ calls' = <<>>
    /\ result' = [kind |-> "Running"]
    /\ UNCHANGED <<fmr, modVars, fnVars, q, staticVars>>

\* engine.compile_file(file_path) returns r
ResolveCompile(r) ==
    /\ pc = "compile"
    /\ LET nxt == after_compile(frame, r) IN
       /\ pc' = nxt.pc
       /\ frame' = nxt.frame
       /\ result' = nxt.result
    /\ calls' = Append(calls, [fn |-> "compile_file", ret |-> r, scope |-> Scope_new])
    /\ UNCHANGED <<fmr, modVars, fnVars, q, staticVars>>

\* engine.eval_ast_with_scope_raw(&mut scope, &ast) returns r and leaves scope
ResolveEval(r, scope) ==
    /\ pc = "eval"
    /\ LET nxt == after_eval(frame, r, scope) IN
       /\ pc' = nxt.pc
       /\ frame' = nxt.frame
       /\ result' = nxt.result
    /\ calls' = Append(calls, [fn |-> "eval_ast_with_scope_raw", ret |-> r,
                               scope |-> frame.scope])
    /\ UNCHANGED <<fmr, modVars, fnVars, q, staticVars>>

\* the rest of resolve: the module is made of the scope and returned
ResolveHarvest ==
    /\ pc = "harvest"
    /\ pc' = "done"
    /\ result' = Ok(harvest_module(frame.scope, frame.ast[1]))
    /\ UNCHANGED <<frame, calls, fmr, modVars, fnVars, q, staticVars>>

\* the caller takes what resolve returned
ResolveReturn ==
    /\ pc = "done"
    /\ pc' = "idle"
    /\ frame' = [path |-> None, pos |-> NoPos, file_path |-> None, ast |-> None, scope |-> Scope_new]
    /\ calls' = <<>>
    /\ result' = [kind |-> "None"]
    /\ UNCHANGED <<fmr, modVars, fnVars, q, staticVars>>

InitFileResolver ==
    /\ fmr \in Resolvers
    /\ pc = "idle"
    /\ frame = [path |-> None, pos |-> NoPos, file_path |-> None, ast |-> None, scope |-> Scope_new]
    /\ calls = <<>>
    /\ result = [kind |-> "None"]
    /\ InitModule
    /\ InitFn
    /\ q = NoOp
    /\ InitStatic

NextFile ==
    \/ pc = "idle" /\ \E path \in ImportPaths, pos \in Positions : ResolveBegin(path, pos)
    \/ pc = "compile" /\ \E r \in {Ok(ast) : ast \in ASTs} \cup {Err(e) : e \in CompileErrors} :
                            ResolveCompile(r)
    \/ pc = "eval" /\ \E scope \in Scopes : ResolveEval(Ok(UNIT), scope)
    \/ pc = "eval" /\ \E e \in EvalErrors : ResolveEval(Err(e), Scope_new)
    \/ ResolveHarvest
    \/ ResolveReturn

SpecFile == InitFileResolver /\ [][NextFile]_vars

-----------------------------------------------------------------------------
(* Claims about FileModuleResolver *)

IsSuffix(suffix, name) ==
    /\ Len(suffix) <= Len(name)
    /\ SubSeq(name, Len(name) - Len(suffix) + 1, Len(name)) = suffix

IsPrefix(prefix, name) ==
    /\ Len(prefix) <= Len(name)
    /\ SubSeq(name, 1, Len(prefix)) = prefix

\* the file name of a path, and the directories before it
FileNameOf(path) == path.comps[Len(path.comps)]

DirOf(path) == SubSeq(path.comps, 1, Len(path.comps) - 1)

\* file is import path p under base with its extension forced to ext: the
\* same directories, and a file name made of a leading part of p's file name
\* (all of it when it has no extension), a "." and ext
ForcedTo(file, base, p, ext) ==
    LET name == FileNameOf(file)
        stem == SubSeq(name, 1, Len(name) - Len(ext) - 1)
    IN  /\ file.abs = base.abs
        /\ DirOf(file) = base.comps \o DirOf(p)
        /\ IsSuffix(<<".">> \o ext, name)
        /\ stem # <<>>
        /\ IsPrefix(stem, FileNameOf(p))
        /\ (\A i \in 1..Len(FileNameOf(p)) : FileNameOf(p)[i] # ".") => stem = FileNameOf(p)

\* C1: a resolver made by a constructor that takes no extension (new, or
\* new_with_path) resolves import path p to base/p with the extension forced
\* to "rhai".
C1_DefaultExtensionIsRhai ==
    (pc = "compile" /\ fmr.ctor \in {"new", "new_with_path"})
        => ForcedTo(frame.file_path[1], fmr.self.path, frame.path[1], rhai)

\* the part of C1 that holds: new_with_path forces "rhai", and
\* new_with_path_and_extension forces the extension it was given
C1_ExplicitConstructorsForce ==
    (pc = "compile" /\ fmr.ctor # "new")
        => ForcedTo(frame.file_path[1], fmr.self.path, frame.path[1], fmr.self.extension)

\* the indexes of the scope entries of a name with one of the tags
EntriesOf(scope, name, tags) ==
    {i \in 1..Len(scope) : scope[i].name = name /\ scope[i].typ \in tags}

Last(S) == CHOOSE i \in S : \A j \in S : j <= i

\* C4: on success the module resolve returns is the harvest of the final
\* scope: each variable is the value of the last entry of its name tagged
\* normal or constant, each entry tagged module is a sub-module under its
\* name, a variable and a module of one name both survive, there are no
\* native functions, and every function of the compiled unit is in the
\* script-function library.
C4_HarvestOfFinalScope ==
    (pc = "done" /\ result.kind = "Ok") =>
        LET md == result.val
            scope == frame.scope
            ast == frame.ast[1]
            AllNames == {scope[i].name : i \in 1..Len(scope)}
        IN  /\ DOMAIN md.variables \subseteq AllNames
            /\ DOMAIN md.modules \subseteq AllNames
            /\ \A n \in AllNames :
                 LET vs == EntriesOf(scope, n, {"Normal", "Constant"})
                     ms == EntriesOf(scope, n, {"Module"})
                 IN  /\ get_var(md, n) = IF vs = {} THEN None ELSE Some(scope[Last(vs)].value)
                     /\ get_sub_module(md, n) =
                            IF ms = {} THEN None ELSE Some(scope[Last(ms)].value.boxed[1])
            /\ md.functions = EmptyMap
            /\ \A k \in DOMAIN ast.fn_lib :
                 get_function(get_fn_lib(md), k[1], k[2]) = Some(ast.fn_lib[k])

\* C4's case: a name written twice as a variable and once as a module, in a
\* script that also defines a function
C4_Witness ==
    /\ pc = "done"
    /\ result.kind = "Ok"
    /\ \E n \in Names :
         /\ Cardinality(EntriesOf(frame.scope, n, {"Normal", "Constant"})) = 2
         /\ EntriesOf(frame.scope, n, {"Module"}) # {}
         /\ frame.scope[1].value # frame.scope[2].value
         /\ frame.scope[1].typ # "Module" /\ frame.scope[2].typ # "Module"
         /\ result.val.variables[n] = frame.scope[2].value
         /\ n \in DOMAIN result.val.modules
    /\ result.val.fn_lib # EmptyMap

\* C5: resolve calls compile_file, then eval_ast_with_scope_raw on a new
\* empty scope, then harvests; the first failure ends it: the evaluator is
\* never called after a failed compilation, a failure is returned as that
\* error with its position replaced by the import position, and a module is
\* returned only when both calls succeeded.
C5_StepsInOrder ==
    /\ Len(calls) <= 2
    /\ Len(calls) >= 1 => calls[1].fn = "compile_file"
    /\ Len(calls) = 2 =>
         /\ calls[2].fn = "eval_ast_with_scope_raw"
         /\ calls[1].ret.kind = "Ok"
         /\ calls[2].scope = Scope_new
    /\ pc = "harvest" => (Len(calls) = 2 /\ calls[2].ret.kind = "Ok")
    /\ result.kind = "Ok" => (pc = "done" /\ Len(calls) = 2 /\ calls[2].ret.kind = "Ok")
    /\ pc = "done" =>
         /\ Len(calls) >= 1
         /\ result.kind \in {"Ok", "Err"}
         /\ calls[Len(calls)].ret.kind = "Err" =>
              /\ result.kind = "Err"
              /\ result.err.kind = calls[Len(calls)].ret.err.kind
              /\ result.err.what = calls[Len(calls)].ret.err.what
              /\ result.err.pos = frame.pos
         /\ result.kind = "Err" => calls[Len(calls)].ret.kind = "Err"

\* C5's case: the file could not be read, and the evaluator was not called
C5_Witness ==
    /\ pc = "done"
    /\ Len(calls) = 1
    /\ calls[1].ret.kind = "Err"
    /\ calls[1].ret.err.kind = "ErrorReadingScriptFile"
    /\ result.kind = "Err"
    /\ result.err.pos = frame.pos
    /\ result.err.pos # calls[1].ret.err.pos

-----------------------------------------------------------------------------
(* Claims about the qualified accessors *)

\* the names of the segments after the first
RestNames(path) == [i \in 1..(Len(path) - 1) |-> path[i + 1].name]

\* whether the chain of sub-modules names exists under md
RECURSIVE ChainExists(_, _)
ChainExists(md, names) ==
    \/ names = <<>>
    \/ /\ Head(names) \in DOMAIN md.modules
       /\ ChainExists(md.modules[Head(names)], Tail(names))

\* the module at the end of an existing chain
RECURSIVE ModuleAt(_, _)
ModuleAt(md, names) ==
    IF names = <<>> THEN md ELSE ModuleAt(md.modules[Head(names)], Tail(names))

\* the index, in the path, of the first segment that is absent
FirstAbsent(md, path) ==
    LET names == RestNames(path)
    IN  1 + CHOOSE k \in 1..Len(names) :
                /\ ChainExists(md, SubSeq(names, 1, k - 1))
                /\ ~ChainExists(md, SubSeq(names, 1, k))

\* the error for the first absent segment of a path
FirstAbsentError(md, path) ==
    LET i == FirstAbsent(md, path)
    IN  Err(ErrorModuleNotFound(path[i].name, SegPos(i)))

\* C2: get_qualified_var_mut ignores the first segment and descends through
\* the others: a reference to the variable when all exist and the module
\* reached holds it; module-not-found with the name and position of the first
\* absent segment; variable-not-found with the name and pos otherwise.
C2_QualifiedVar ==
    (q.op = "get_qualified_var_mut" /\ Len(q.path) >= 1) =>
        LET names == RestNames(q.path) IN
        IF ~ChainExists(m, names) THEN q.out = FirstAbsentError(m, q.path)
        ELSE IF q.name \in DOMAIN ModuleAt(m, names).variables
        THEN q.out = Ok([loc |-> names, name |-> q.name,
                         value |-> ModuleAt(m, names).variables[q.name]])
        ELSE q.out = Err(ErrorVariableNotFound(q.name, q.pos))

\* C2's case: a variable two sub-modules down, found through a path whose
\* first segment names no sub-module of the module asked
C2_Witness ==
    /\ q.op = "get_qualified_var_mut"
    /\ Len(q.path) = 3
    /\ q.out.kind = "Ok"
    /\ q.path[1].name \notin DOMAIN m.modules
    /\ q.name \notin DOMAIN m.variables

\* the display name: every segment followed by "::", then the name
RECURSIVE SegmentsJoined(_, _)
SegmentsJoined(path, i) ==
    IF i = 0 THEN "" ELSE SegmentsJoined(path, i - 1) \o path[i].name \o "::"

\* C8: get_qualified_fn resolves the module along the path, then looks the
\* hash up in that module only: module-not-found for an absent segment,
\* function-not-found with pos and the name made of every segment, the first
\* included, each followed by "::", then the function name; otherwise the
\* callable registered under the hash in the module reached.
C8_QualifiedFn ==
    (q.op = "get_qualified_fn" /\ Len(q.path) >= 1) =>
        LET names == RestNames(q.path) IN
        IF ~ChainExists(m, names) THEN q.out = FirstAbsentError(m, q.path)
        ELSE IF q.n \in DOMAIN ModuleAt(m, names).functions
        THEN q.out = Ok(ModuleAt(m, names).functions[q.n])
        ELSE q.out = Err(ErrorFunctionNotFound(
                            SegmentsJoined(q.path, Len(q.path)) \o q.name, q.pos))

\* C8's case: the function is registered in the module asked but not in the
\* sub-module the path leads to
C8_Witness ==
    /\ q.op = "get_qualified_fn"
    /\ q.n \in DOMAIN m.functions
    /\ q.out = Err(ErrorFunctionNotFound("self::a::f", q.pos))

\* C10: every qualified accessor panics on an empty path, and on no other;
\* with one segment get_qualified_module_mut returns the module it was called
\* on, whatever the segment's name.
C10_NonEmptyPath ==
    q # NoOp =>
        /\ (q.path = <<>>) <=> (q.out = Panic)
        /\ (q.op = "get_qualified_module_mut" /\ Len(q.path) = 1)
              => q.out = Ok([loc |-> <<>>, module |-> m])

\* C10's case: a function looked up with an empty path
C10_Witness ==
    /\ q.op = "get_qualified_fn"
    /\ q.path = <<>>
    /\ q.out = Panic

-----------------------------------------------------------------------------
(* Claims about variables, sub-modules and native functions *)

\* C7: variables and sub-modules are separate maps with insert-or-replace:
\* get_var gives the value of the latest set_var of the name, get_sub_module
\* the module of the latest set_sub_module, each absent when there was none;
\* set_var leaves the sub-modules and the functions alone, set_sub_module the
\* variables and the functions.
C7_IndependentNamespaces ==
    /\ \A n \in Names :
         /\ get_var(m, n) = Lookup(gvars, n)
         /\ contains_var(m, n) <=> n \in DOMAIN gvars
         /\ get_sub_module(m, n) = Lookup(gsubs, n)
         /\ contains_sub_module(m, n) <=> n \in DOMAIN gsubs
    /\ DOMAIN m.variables = DOMAIN gvars
    /\ DOMAIN m.modules = DOMAIN gsubs
    /\ m.functions = gfns

\* C7's case: a variable and a sub-module of one name, beside a function
C7_Witness ==
    /\ get_var(m, "a") = Some(Dyn("u8", 2))
    /\ get_sub_module(m, "a") = Some(set_var(Module_new, "a", Dyn("i64", 1)))
    /\ ~contains_var(m, "b")
    /\ m.functions # EmptyMap

\* the index of the latest registration that returned hash h
LatestReg(h) == Last({i \in 1..Len(regs) : regs[i].hash = h})

IsMut(via) == via \in {"set_fn_1_mut", "set_fn_2_mut", "set_fn_3_mut"}

\* the payloads of an argument array
Payloads(args) == [i \in 1..Len(args) |-> args[i].v]

\* what closure func returns for an argument array
ClosureReturn(func, mut, args) ==
    IF mut THEN apply_closure_mut(func, args[1].v, Tail(Payloads(args))).ret
    ELSE apply_closure(func, Payloads(args))

\* C3: the function table holds one entry per hash returned so far,
\* contains_fn is true of every returned hash, get_fn gives the callable of
\* the latest registration that returned the hash (the same name and
\* parameter types give the same hash), and calling it with arguments of the
\* declared types gives the closure's result.
C3_FunctionTable ==
    /\ DOMAIN m.functions = {regs[i].hash : i \in 1..Len(regs)}
    /\ \A i \in 1..Len(regs) : contains_fn(m, regs[i].hash)
    /\ \A i, j \in 1..Len(regs) :
         (regs[i].fn_name = regs[j].fn_name /\ regs[i].params = regs[j].params)
            => regs[i].hash = regs[j].hash
    /\ \A h \in DOMAIN m.functions :
         LET e == regs[LatestReg(h)]
             f == get_fn(m, h)[1]
         IN  /\ f.func = e.func
             /\ e.via = "set_fn" => f \in RawFuncs
             /\ e.via # "set_fn" =>
                  /\ f.types = e.params
                  /\ f.arity = Len(e.params)
                  /\ f.mut = IsMut(e.via)
                  /\ \A args \in ArgsFor(f), pos \in Positions :
                       LET out == Invoke(f, args, pos).out
                           ret == ClosureReturn(e.func, IsMut(e.via), args)
                       IN  /\ out.kind = ret.kind
                           /\ ret.kind = "Ok" => out.val = Dyn("i64", ret.val)

\* C3's case: the same name and parameter types registered twice, with two
\* closures
C3_Witness ==
    /\ Len(regs) = 2
    /\ regs[1].via = "set_fn_2"
    /\ regs[2].via = "set_fn_2_mut"
    /\ regs[1].params = regs[2].params
    /\ regs[1].func # regs[2].func
    /\ Cardinality(DOMAIN m.functions) = 1
    /\ get_fn(m, regs[2].hash)[1].func = regs[2].func

-----------------------------------------------------------------------------
(* Claims about StaticModuleResolver *)

\* C6: resolve is a lookup: the module stored under the path, or
\* module-not-found with the path and pos; the registry is as it was, also
\* after the caller changes the module it got.
C6_StaticLookup ==
    sres # NoOp =>
        /\ registry = sres.before
        /\ sres.path \in DOMAIN sres.before => sres.out = Ok(sres.before[sres.path])
        /\ sres.path \notin DOMAIN sres.before
              => sres.out = Err(ErrorModuleNotFound(sres.path, sres.pos))
        /\ sres.out.kind = "Ok" => registry[sres.path] = sres.out.val

\* C6's case: the caller changed the module resolve returned
C6_Witness ==
    /\ sres # NoOp
    /\ sres.mutated
    /\ sres.out.kind = "Ok"
    /\ sres.owned[1] # sres.out.val
    /\ registry[sres.path] = sres.out.val
    /\ Cardinality(DOMAIN registry) = 2

====
